---------------------------- MODULE Spec2Model ----------------------------
(***************************************************************************)
(* Model of the Elasticsearch indexer lambda, lambdas/es/indexer/index.py. *)
(*                                                                         *)
(* handler(event, context) walks the messages of one delivery, and for     *)
(* each wrapped notification batch walks its S3 event records: delete      *)
(* records append a tombstone, put records fetch metadata (retry_s3 head,  *)
(* with a fallback for the "null" version), extract contents (retry_s3     *)
(* get inside get_contents) and append a document; the batch queue is      *)
(* flushed by send_all and a remembered content exception is re-raised.    *)
(*                                                                         *)
(* retry_s3 is modelled attempt by attempt: every attempt draws the        *)
(* storage service's answer from Outcomes, and the tenacity decorator's    *)
(* decision (retry predicate, then stop_after_attempt, then the wait) is   *)
(* computed as the decorator computes it.                                  *)
(***************************************************************************)
EXTENDS Integers, Sequences, FiniteSets, TLC

\* ------------------------------------------------------------------ bounds
\* at most this many messages in event["Records"]
MaxMsgs == 2
\* at most this many S3 event records in one delivery (over all messages)
MaxRecs == 2
\* attempt ceiling of retry_s3; index.py imports it from document_queue
MAX_RETRY == 4
\* byte ceiling of extracted text; index.py imports it from the shared preview module
ELASTIC_LIMIT_BYTES == 8
\* seconds of execution time the invocation has left when handler starts
Budget == 3
\* at most this many characters in a fetched text
MaxChars == 4
\* at most this many cells in a notebook
MaxCells == 3
\* line ceiling of extracted text; index.py imports it from the shared preview module
ELASTIC_LIMIT_LINES == 2

\* --------------------------------------------------------------- constants
OBJECT_DELETE == "ObjectRemoved:Delete"
OBJECT_PUT == "ObjectCreated:Put"
DELETE_MARKER == "ObjectRemoved:DeleteMarkerCreated"
TEST_EVENT == "s3:TestEvent"
CONTENT_INDEX_EXTS == {".csv", ".ipynb", ".json", ".md", ".parquet", ".rmd", ".tsv", ".txt"}
\* wait_exponential(multiplier=2, min=4, max=30)
WAIT_MULTIPLIER == 2
WAIT_MIN == 4
WAIT_MAX == 30

Absent == "<absent>"
NoVersion == "<None>"

Max(a, b) == IF a >= b THEN a ELSE b
Min(a, b) == IF a <= b THEN a ELSE b
Last(s) == s[Len(s)]

\* --------------------------------------------------------------- delivery
\* One S3 event record (event_): the fields handler reads from it.  The key
\* is given by the stem of its file name and the name's last two suffixes.
Record(name, vid, etag, stem, ext2, ext1) ==
    [eventName |-> name, versionId |-> vid, eTag |-> etag,
     stem |-> stem, ext2 |-> ext2, ext1 |-> ext1, bucket |-> "test-bucket"]
\* the same record, of another bucket
InBucket(rec, bucket) == [rec EXCEPT !.bucket = bucket]

EventRecords ==
    { Record(OBJECT_PUT, v, "etag1", "hello world", "", ".txt") : v \in {"v1", "null"} }
    \cup { Record(OBJECT_DELETE, NoVersion, "", "hello world", "", ".txt"),
           Record(DELETE_MARKER, "v1", "etag1", "hello world", "", ".txt") }

\* One message of event["Records"]: the decoded body["Message"].
TestMessage == [hasRecords |-> FALSE, Event |-> TEST_EVENT, Records |-> << >>]
BadMessage == [hasRecords |-> FALSE, Event |-> Absent, Records |-> << >>]
BatchMessage(rs) == [hasRecords |-> TRUE, Event |-> Absent, Records |-> rs]

Batches == UNION { [1..n -> EventRecords] : n \in 1..MaxRecs }
Messages == {TestMessage, BadMessage} \cup { BatchMessage(rs) : rs \in Batches }

\* the deliveries of n messages that hold at most `records` records in all
RECURSIVE DeliveriesOf(_, _)
DeliveriesOf(n, records) ==
    IF n = 0 THEN { << >> }
    ELSE UNION { { <<m>> \o d : d \in DeliveriesOf(n - 1, records - Len(m.Records)) } :
                 m \in { x \in Messages : Len(x.Records) <= records } }

Deliveries == UNION { DeliveriesOf(n, MaxRecs) : n \in 1..MaxMsgs }

\* the created event names S3 sends
CreatedEvents ==
    {"ObjectCreated:Put", "ObjectCreated:Copy", "ObjectCreated:Post",
     "ObjectCreated:CompleteMultipartUpload"}
\* One record of every kind of key and of every created event name
WideRecords ==
    { Record(OBJECT_PUT, "v1", "etag1", "foo", k[1], k[2]) :
        k \in { <<"", ".txt">>, <<".txt", ".gz">>, <<"", ".ipynb">>, <<".ipynb", ".gz">>,
                <<"", ".parquet">>, <<".parquet", ".gz">>, <<"", ".exe">>,
                <<".exe", ".gz">>, <<"", ".c000">> } }
    \cup { Record(OBJECT_PUT, "v1", "etag1", "part-c0001", "", ""),
           Record(OBJECT_PUT, "null", "etag1", "hello world", "", ".txt"),
           Record(OBJECT_PUT, NoVersion, "etag1", "hello world", "", ".txt"),
           Record(OBJECT_DELETE, NoVersion, "", "hello world", "", ".txt"),
           Record(DELETE_MARKER, "v1", "etag1", "hello world", "", ".txt"),
           Record(OBJECT_PUT, "v1", "etag1", "report", ".v2", ".txt"),
           Record(OBJECT_PUT, "v1", "etag1", "annotated", "", ".txt"),
           Record(OBJECT_PUT, "v1", "etag1", "annotated", "", ".exe") }
    \cup { Record(name, "v1", "etag1", "hello world", "", ".txt") : name \in CreatedEvents }
\* the records that are delivered twice
TwiceRecords ==
    { InBucket(Record(OBJECT_PUT, "v1", "etag1", "hello world", "", ".txt"), "other-bucket"),
      Record(OBJECT_PUT, "null", "etag1", "hello world", "", ".txt"),
      Record(OBJECT_DELETE, NoVersion, "", "hello world", "", ".txt") }
\* the deliveries of one record, alone, after a test sentinel, or before a
\* message without Records, and the deliveries of the same notification twice
WideDeliveries ==
    UNION { { << BatchMessage(<<r>>) >>,
              << TestMessage, BatchMessage(<<r>>) >>,
              << BatchMessage(<<r>>), BadMessage >> } : r \in WideRecords }
    \cup { << BatchMessage(<<r>>), BatchMessage(<<r>>) >> : r \in TwiceRecords }
\* those, and the batches of two records
LiveDeliveries ==
    WideDeliveries \cup { << BatchMessage(<<r, s>>) >> : r, s \in TwiceRecords }

\* ------------------------------------------------------------ the storage
\* What one head_object/get_object request can end in: success, a ClientError
\* with an HTTP error code, or a fault raised below the HTTP layer (a
\* botocore exception that carries no response).
ErrorCodes == {"403", "404", "412", "500"}
ClientError(code, op, id) == [type |-> "ClientError", Code |-> code, op |-> op, id |-> id]
NetworkFault(op, id) == [type |-> "EndpointConnectionError", Code |-> Absent, op |-> op, id |-> id]
AttributeError(op, id) == [type |-> "AttributeError", Code |-> Absent, op |-> op, id |-> id]
EnvelopeError == [type |-> "Exception", Code |-> Absent, op |-> "envelope", id |-> <<0, 0>>]
NoException == [type |-> "None", Code |-> Absent, op |-> Absent, id |-> <<0, 0>>]

Failures(op, id) ==
    { ClientError(c, op, id) : c \in ErrorCodes } \cup { NetworkFault(op, id) }

\* ContentLength values a head response can carry
Sizes == {0, 100}
\* ----------------------------------------------------------------- strings
\* A str is the sequence of its characters; a character is named by a string.
\* UTF-8 gives a character one to three bytes; a byte is the pair of its
\* character and its place in the character's encoding.
Newline == "\n"
Digits == {"0", "1", "2", "3", "4", "5", "6", "7", "8", "9"}
ByteLen(c) ==
    CASE c = "<e-acute>" -> 2
      [] c = "<euro>" -> 3
      [] OTHER -> 1

RECURSIVE Encode(_)
\* str.encode("utf-8")
Encode(string) ==
    IF string = << >> THEN << >>
    ELSE [k \in 1..ByteLen(string[1]) |-> <<string[1], k>>] \o Encode(Tail(string))

\* bytes.decode("utf-8", "ignore"): the characters whose bytes are all there,
\* in order; bytes that form no whole character are dropped
DecodeIgnore(bytes) ==
    LET whole == { i \in 1..Len(bytes) :
                    /\ bytes[i][2] = 1
                    /\ i + ByteLen(bytes[i][1]) - 1 <= Len(bytes)
                    /\ \A k \in 1..ByteLen(bytes[i][1]) : bytes[i + k - 1] = <<bytes[i][1], k>> }
        starts == SelectSeq([i \in 1..Len(bytes) |-> i], LAMBDA i : i \in whole)
    IN  [j \in 1..Len(starts) |-> bytes[starts[j]][1]]

Take(s, n) == SubSeq(s, 1, Min(n, Len(s)))

\* as trim_to_bytes, but the limit counts characters
trim_to_bytes_chars(string, limit) == Take(string, limit)

\* t4_lambda_shared.preview.trim_to_bytes: a str clipped to `limit` bytes
trim_to_bytes(string, limit) ==
    LET encoded == Encode(string) IN
    IF Len(encoded) <= limit THEN string
    ELSE DecodeIgnore(Take(encoded, limit))

RECURSIVE SplitLines(_)
\* bytes.splitlines, for lines that end in "\n"
SplitLines(s) ==
    IF s = << >> THEN << >>
    ELSE LET ends == { i \in 1..Len(s) : s[i] = Newline } IN
         IF ends = {} THEN << s >>
         ELSE LET i == CHOOSE e \in ends : \A o \in ends : e <= o IN
              << SubSeq(s, 1, i - 1) >> \o SplitLines(SubSeq(s, i + 1, Len(s)))

RECURSIVE Join(_)
\* "\n".join(lines)
Join(lines) ==
    IF lines = << >> THEN << >>
    ELSE IF Len(lines) = 1 THEN lines[1]
    ELSE lines[1] \o <<Newline>> \o Join(Tail(lines))

\* t4_lambda_shared.preview.get_preview_lines: at most max_lines lines that
\* hold at most max_bytes bytes in all, decoded
get_preview_lines(body, max_lines, max_bytes) ==
    Take(SplitLines(DecodeIgnore(Take(body, max_bytes))), max_lines)

\* ------------------------------------------------------ fetched payloads
\* What the body of a get_object response turns out to hold once it is read,
\* decompressed and parsed: the characters of a text, the cells of a
\* notebook, the summary and rows of a columnar file, or the fault the read
\* ends in.
NoFault == "<none>"
Hello == <<"H", "e", "l", "l", "o">>
Payload(fault, chars, cells, info) ==
    [fault |-> fault, chars |-> chars, cells |-> cells, info |-> info]
Faulty(fault) == Payload(fault, << >>, << >>, << >>)
\* no body has been read
Unread == Faulty("<unread>")
\* one notebook cell: its cell_type, whether it has a "source", the source
\* and the text of its outputs
Cell(cell_type, has_source, source, outputs) ==
    [cell_type |-> cell_type, has_source |-> has_source, source |-> source,
     outputs |-> outputs]
Notebook1 ==
    << Cell("markdown", TRUE, <<"#", "A">>, << >>),
       Cell("raw", TRUE, <<"r">>, << >>),
       Cell("code", TRUE, <<"f", "(", ")">>, <<"o", "u", "t">>) >>
\* the faults of each family: what get_bytes, decode, nbformat.reads,
\* get_preview_lines and extract_parquet can raise
NotebookFaults == {"UnicodeDecodeError", "NotJSONError", "KeyError", "ValidationError"}
Faults(ext, compression) ==
    (IF compression = "gz" THEN {"zlib.error"} ELSE {})
    \cup (IF ext = ".ipynb" THEN NotebookFaults
          ELSE IF ext = ".parquet" THEN {"ArrowInvalid"}
          ELSE {"UnicodeDecodeError"})
Payloads(ext, compression) ==
    { Faulty(f) : f \in Faults(ext, compression) }
    \cup (IF ext = ".ipynb" THEN { Payload(NoFault, << >>, Notebook1, << >>) }
          ELSE IF ext = ".parquet" THEN { Payload(NoFault, <<"r", "o", "w">>, << >>, <<"{", "}">>) }
          ELSE { Payload(NoFault, Hello, << >>, << >>) })

\* -------------------------------------------------------- custom metadata
\* head["Metadata"]: whether it has a "helium" entry, and the entry.  A value
\* is a str (as S3 returns it), a dict named by its one key ("" for {}), or None.
Str(s) == <<"str", s>>
Dict(k) == <<"dict", k>>
None == <<"None", "">>
Metadata(has_helium, helium) == [has_helium |-> has_helium, helium |-> helium]
\* Metadata without a helium entry ({} is one)
NoMeta == Metadata(FALSE, None)
JSONDecodeError == <<"JSONDecodeError", "">>
\* json.loads of the helium strings of the model; JSONDecodeError when it raises
json_loads(s) ==
    CASE s = Str("{\"user_meta\": {}}") -> Dict("user_meta")
      [] s = Str("{}") -> Dict("")
      [] s = Str("null") -> None
      [] OTHER -> JSONDecodeError
\* `x or {}`
OrEmpty(x) == IF x \in {None, Dict("")} THEN Dict("") ELSE x

\* lines 321-327: decode Quilt-specific metadata
decode_helium(meta) ==
    IF ~meta.has_helium THEN meta
    ELSE LET decoded_helium == json_loads(meta.helium) IN
         IF decoded_helium = JSONDecodeError THEN meta
         ELSE Metadata(TRUE, OrEmpty(decoded_helium))

\* the custom metadata of the stored objects: the objects named "annotated"
\* carry a helium entry, well-formed or not; the others carry none
HeliumStrings == { Str("{\"user_meta\": {}}"), Str("{}"), Str("null"), Str("{not json") }
Metas(rec) ==
    IF rec.stem = "annotated" THEN { Metadata(TRUE, h) : h \in HeliumStrings }
    ELSE { NoMeta }

VARIABLES
    event,              \* the delivery handed to handler
    remaining,          \* seconds of execution time left (context)
    pc,                 \* where handler is
    mi,                 \* index of the current message in event["Records"]
    ri,                 \* index of the current record in the message's Records
    content_exception,  \* the exception handler re-raises after send_all
    batch_processor,    \* the current DocumentQueue: the documents appended
    es,                 \* the batches send_all has submitted, in order
    calls,              \* the retry_s3 calls made for the current record
    raised,             \* the exception handler ended with
    skipped,            \* history: the records given up at line 343
    failed,             \* history: the records whose get_contents raised
    arg,                \* the arguments of a function called on its own
    result              \* what that call ended in

vars == <<event, remaining, pc, mi, ri, content_exception, batch_processor, es,
          calls, raised, skipped, failed, arg, result>>

\* ---------------------------------------------------------------- retry_s3
\* as should_retry_exception, but "404" is missing from the list
should_retry_exception_no404(exception) ==
    IF exception.type # "ClientError" THEN "AttributeError"
    ELSE IF exception.Code \notin {"402", "403"} THEN "True"
    ELSE "False"

\* should_retry_exception reads exception.response: an exception without
\* that attribute makes the predicate itself raise AttributeError.
should_retry_exception(exception) ==
    IF exception.type # "ClientError" THEN "AttributeError"
    ELSE IF exception.Code \notin {"402", "403", "404"} THEN "True"
    ELSE "False"

\* as stop_after_attempt, but one attempt late
stop_after_attempt_late(attempt_number) == attempt_number > MAX_RETRY

\* as stop_after_attempt, but the ceiling is doubled
stop_after_attempt_twice(attempt_number) == attempt_number >= 2 * MAX_RETRY

\* stop_after_attempt(MAX_RETRY)
stop_after_attempt(attempt_number) == attempt_number >= MAX_RETRY

RECURSIVE Pow2(_)
Pow2(n) == IF n = 0 THEN 1 ELSE 2 * Pow2(n - 1)

\* wait_exponential(multiplier=2, min=4, max=30), for the attempt just failed
wait_exponential(attempt_number) ==
    Max(Max(0, WAIT_MIN), Min(WAIT_MULTIPLIER * Pow2(attempt_number - 1), WAIT_MAX))

\* What the retry decorator does with a failed attempt: it asks the retry
\* predicate first, then the stop condition, and sleeps otherwise.
RetryDecision(exception, attempt_number) ==
    LET retry == should_retry_exception(exception) IN
    IF retry = "AttributeError" THEN "raise AttributeError"
    ELSE IF retry = "False" THEN "reraise"
    ELSE IF stop_after_attempt(attempt_number) THEN "reraise"
    ELSE "sleep"

\* the exception retry_s3 ends with when it does not sleep
Surfaced(exception, attempt_number) ==
    IF RetryDecision(exception, attempt_number) = "raise AttributeError"
    THEN AttributeError(exception.op, exception.id)
    ELSE exception

\* as Arguments, but IfMatch is always sent
Arguments_both(operation, id, size, limit, etag, version_id) ==
    [op |-> operation,
     Key |-> id,
     Range |-> IF operation = "get" /\ size # 0 /\ limit # 0 THEN <<0, limit>> ELSE << >>,
     VersionId |-> IF version_id # NoVersion THEN version_id ELSE Absent,
     IfMatch |-> etag]

\* keyword arguments of the request, lines 380-390
Arguments(operation, id, size, limit, etag, version_id) ==
    [op |-> operation,
     Key |-> id,
     Range |-> IF operation = "get" /\ size # 0 /\ limit # 0 THEN <<0, limit>> ELSE << >>,
     VersionId |-> IF version_id # NoVersion THEN version_id ELSE Absent,
     IfMatch |-> IF version_id # NoVersion THEN Absent ELSE etag]

\* One retry_s3 call: its arguments, the number of the attempt it is about to
\* make, the waits it has slept (each with the time that was left when it
\* began), the failure of its last failed attempt, and whether it is pending,
\* returned or raised.
NewCall(arguments) ==
    [arguments |-> arguments, attempt_number |-> 1, waits |-> << >>,
     last |-> NoException, status |-> "pending", body |-> Unread, meta |-> NoMeta]

InCall == pc \in {"head", "head_fallback", "get"}
Current == Last(calls)
\* When the call ends its locals are gone: what stays in the log is the
\* request it made, how it ended, the exception it raised and, for a byte
\* fetch, what the body it returned held.
Ended(call, status, exception) ==
    [arguments |-> call.arguments, attempt_number |-> 0, waits |-> << >>,
     last |-> exception, status |-> status, body |-> Unread, meta |-> NoMeta]
Returned == [calls EXCEPT ![Len(calls)] = Ended(@, "returned", NoException)]
ReturnedBody(payload) == [Returned EXCEPT ![Len(calls)].body = payload]
\* line 302: the Metadata of the head response
ReturnedMeta(meta) == [Returned EXCEPT ![Len(calls)].meta = meta]
\* meta, while get_contents runs: the Metadata of the head call before it
HeadMeta == calls[Len(calls) - 1].meta
Raised(exception) == [calls EXCEPT ![Len(calls)] = Ended(@, "raised", exception)]

\* ----------------------------------------------------------------- handler
Message == event[mi]
Records == Message.Records
event_ == Records[ri]
Id == <<mi, ri>>

\* lines 249-250
VersionOf(rec) == rec.versionId
\* lines 255-258: two levels of extensions
ExtOf(rec) == <<rec.ext2, rec.ext1>>

\* the characters of the names the keys of the model are made of
Spell(s) ==
    CASE s = "" -> << >>
      [] s = "hello world" -> <<"h", "e", "l", "l", "o", " ", "w", "o", "r", "l", "d">>
      [] s = "foo" -> <<"f", "o", "o">>
      [] s = "part-c0001" -> <<"p", "a", "r", "t", "-", "c", "0", "0", "0", "1">>
      [] s = ".txt" -> <<".", "t", "x", "t">>
      [] s = ".gz" -> <<".", "g", "z">>
      [] s = ".exe" -> <<".", "e", "x", "e">>
      [] s = ".ipynb" -> <<".", "i", "p", "y", "n", "b">>
      [] s = ".parquet" -> <<".", "p", "a", "r", "q", "u", "e", "t">>
      [] s = ".c000" -> <<".", "c", "0", "0", "0">>
      [] s = ".c00" -> <<".", "c", "0", "0">>
      [] s = ".c00011" -> <<".", "c", "0", "0", "0", "1", "1">>
      [] s = ".c000121" -> <<".", "c", "0", "0", "0", "1", "2", "1">>
      [] s = ".v2" -> <<".", "v", "2">>
      [] s = "report" -> <<"r", "e", "p", "o", "r", "t">>
      [] s = "annotated" -> <<"a", "n", "n", "o", "t", "a", "t", "e", "d">>
      [] s = "file" -> <<"f", "i", "l", "e">>
      [] s = "file-c01" -> <<"f", "i", "l", "e", "-", "c", "0", "1">>
      [] s = "file-c001" -> <<"f", "i", "l", "e", "-", "c", "0", "0", "1">>
      [] s = "file-c0001" -> <<"f", "i", "l", "e", "-", "c", "0", "0", "0", "1">>
      [] s = "file-c00011" -> <<"f", "i", "l", "e", "-", "c", "0", "0", "0", "1", "1">>
      [] s = "file-c000121" -> <<"f", "i", "l", "e", "-", "c", "0", "0", "0", "1", "2", "1">>
      [] s = "file-c0000" -> <<"f", "i", "l", "e", "-", "c", "0", "0", "0", "0">>
      [] s = "file-C0001" -> <<"f", "i", "l", "e", "-", "C", "0", "0", "0", "1">>
      [] s = "two<LF>lines-c0001" ->
            <<"t", "w", "o", Newline, "l", "i", "n", "e", "s", "-", "c", "0", "0", "0", "1">>
\* line 248: the key of the record
KeyOf(rec) == Spell(rec.stem) \o Spell(rec.ext2) \o Spell(rec.ext1)

\* re.fullmatch(r".c\d{3,5}", ext)
MatchesPartitionExt(s) ==
    /\ Len(s) \in 5..7
    /\ s[1] # Newline /\ s[2] = "c"
    /\ \A i \in 3..Len(s) : s[i] \in Digits
\* as MatchesPartitionKey, but up to six digits are taken
MatchesPartitionKey_six(s) ==
    \E n \in 3..6 :
        /\ Len(s) >= n + 2
        /\ s[Len(s) - n - 1] = "-" /\ s[Len(s) - n] = "c"
        /\ \A i \in (Len(s) - n + 1)..Len(s) : s[i] \in Digits
        /\ \A i \in 1..(Len(s) - n - 2) : s[i] # Newline

\* re.fullmatch(r".*-c\d{3,5}$", key)
MatchesPartitionKey(s) ==
    \E n \in 3..5 :
        /\ Len(s) >= n + 2
        /\ s[Len(s) - n - 1] = "-" /\ s[Len(s) - n] = "c"
        /\ \A i \in (Len(s) - n + 1)..Len(s) : s[i] \in Digits
        /\ \A i \in 1..(Len(s) - n - 2) : s[i] # Newline

\* as infer_extensions, but nothing is guessed
infer_extensions_literal(key, ext) == ext

\* infer_extensions, lines 58-64; an extension is the pair of its two suffixes
infer_extensions(key, ext) ==
    IF MatchesPartitionExt(Spell(ext[1]) \o Spell(ext[2])) \/ MatchesPartitionKey(key)
    THEN <<"", ".parquet">>
    ELSE ext

NoCompression == "<None>"
\* get_contents, lines 69-73: the outer .gz is peeled
Compression(ext) == IF ext[2] = ".gz" THEN "gz" ELSE NoCompression
Peeled(ext) == IF ext[2] = ".gz" THEN <<"", ext[1]>> ELSE ext
\* line 76: the extension get_contents dispatches on
IndexedExt(rec) == infer_extensions(KeyOf(rec), Peeled(ExtOf(rec)))
\* line 77: ext in CONTENT_INDEX_EXTS
InIndex(ext) == ext[1] = "" /\ ext[2] \in CONTENT_INDEX_EXTS
FetchesContents(rec) == InIndex(IndexedExt(rec))
\* get_plain_text passes limit=ELASTIC_LIMIT_BYTES, the other families none
LimitOf(rec) ==
    IF IndexedExt(rec)[2] \in {".ipynb", ".parquet"} THEN 0 ELSE ELASTIC_LIMIT_BYTES

\* what an extractor ends in: the text it returns, or the exception it raises
Result(text, raises) == [text |-> text, raises |-> raises]

\* the bytes a get_object response holds for a request with a Range
Fetched(body, range) ==
    IF range = << >> THEN body
    ELSE SubSeq(body, range[1] + 1, Min(range[2] + 1, Len(body)))

\* as IsIndexedCell, but every cell with a source is taken
IsIndexedCell_all(cell) == cell.has_source

\* line 145
IsIndexedCell(cell) == cell.has_source /\ cell.cell_type \in {"code", "markdown"}
\* extract_text, lines 142-148
extract_text(cells) ==
    LET text == SelectSeq(cells, IsIndexedCell) IN
    Join([i \in 1..Len(text) |-> text[i].source])

\* as get_notebook_cells, but no exception is caught
get_notebook_cells_raise(payload) ==
    IF payload.fault # NoFault THEN Result(<< >>, payload.fault)
    ELSE Result(extract_text(payload.cells), NoFault)

\* get_notebook_cells, lines 151-179: what extract_text raises is caught by
\* the inner try, a UnicodeDecodeError by the outer one
get_notebook_cells(payload) ==
    IF payload.fault \in {"NotJSONError", "KeyError", "ValidationError"} THEN Result(<< >>, NoFault)
    ELSE IF payload.fault = "UnicodeDecodeError" THEN Result(<< >>, NoFault)
    ELSE IF payload.fault # NoFault THEN Result(<< >>, payload.fault)
    ELSE Result(extract_text(payload.cells), NoFault)

\* as get_plain_text, but the UnicodeDecodeError is not caught
get_plain_text_raise(payload, compression, range) ==
    IF payload.fault # NoFault THEN Result(<< >>, payload.fault)
    ELSE Result(Join(get_preview_lines(
                    IF compression = NoCompression
                    THEN Fetched(Encode(payload.chars), range)
                    ELSE Encode(payload.chars),
                    ELASTIC_LIMIT_LINES, ELASTIC_LIMIT_BYTES)), NoFault)

\* get_plain_text, lines 182-206
get_plain_text(payload, compression, range) ==
    IF payload.fault = "UnicodeDecodeError" THEN Result(<< >>, NoFault)
    ELSE IF payload.fault # NoFault THEN Result(<< >>, payload.fault)
    ELSE Result(Join(get_preview_lines(
                    IF compression = NoCompression
                    THEN Fetched(Encode(payload.chars), range)
                    ELSE Encode(payload.chars),
                    ELASTIC_LIMIT_LINES, ELASTIC_LIMIT_BYTES)), NoFault)

\* as ParquetContents, but the text is not trimmed
ParquetContents_untrimmed(payload) ==
    IF payload.fault # NoFault THEN Result(<< >>, payload.fault)
    ELSE Result(payload.info \o <<Newline>> \o payload.chars, NoFault)

\* get_contents, lines 94-105: whatever get_bytes or extract_parquet raises
\* leaves get_contents
ParquetContents(payload) ==
    IF payload.fault # NoFault THEN Result(<< >>, payload.fault)
    ELSE Result(trim_to_bytes(payload.info \o <<Newline>> \o payload.chars,
                              ELASTIC_LIMIT_BYTES), NoFault)

\* get_contents, lines 67-117, once the byte fetch has returned `payload`
get_contents(rec, range, payload) ==
    LET ext == IndexedExt(rec)
        compression == Compression(ExtOf(rec))
    IN  IF ~InIndex(ext) THEN Result(<< >>, NoFault)
        ELSE IF ext[2] = ".ipynb"
        THEN LET cells == get_notebook_cells(payload) IN
             Result(trim_to_bytes(cells.text, ELASTIC_LIMIT_BYTES), cells.raises)
        ELSE IF ext[2] = ".parquet" THEN ParquetContents(payload)
        ELSE get_plain_text(payload, compression, range)

\* a function called on its own: which one, and what it is called with
Call(fn, rec, size, payload) == [fn |-> fn, rec |-> rec, size |-> size, payload |-> payload]
NoArg == Call("<none>", Record(OBJECT_PUT, NoVersion, "", "", "", ""), 0, Unread)
NoResult == Result(<< >>, "<not called>")

\* the exception handler catches at line 316 when extraction raises
ExtractionError(type, id) == [type |-> type, Code |-> Absent, op |-> "get", id |-> id]

\* as Document, but a delete without versionId is given the time of the call
\* as its version
Document_timestamped(event_name, id, rec, meta, text) ==
    [event |-> event_name, key |-> id, ext |-> ExtOf(rec), etag |-> rec.eTag,
     version_id |-> IF event_name = OBJECT_DELETE /\ VersionOf(rec) = NoVersion
                    THEN (IF id[1] = 1 THEN "t1" ELSE "t2")
                    ELSE VersionOf(rec),
     text |-> text,
     bucket |-> rec.bucket, name |-> KeyOf(rec), meta |-> meta]

\* DocumentQueue.append: one document per call
Document(event_name, id, rec, meta, text) ==
    [event |-> event_name, key |-> id, ext |-> ExtOf(rec), etag |-> rec.eTag,
     version_id |-> VersionOf(rec), text |-> text,
     bucket |-> rec.bucket, name |-> KeyOf(rec), meta |-> meta]
NoQueue == [created |-> FALSE, queue |-> << >>, sent |-> FALSE]
DocumentQueue == [created |-> TRUE, queue |-> << >>, sent |-> FALSE]
\* as append, but the document is put in front
append_front(q, doc) == [q EXCEPT !.queue = <<doc>> \o @]

append(q, doc) == [q EXCEPT !.queue = Append(@, doc)]

\* as IsDelete, but no event is taken for a delete
IsDelete_never(event_name) == FALSE

\* line 262
IsDelete(event_name) == event_name = OBJECT_DELETE
\* as Processed, but every event kind is processed
Processed_all(event_name) == TRUE

\* line 244
Processed(event_name) == event_name \in {OBJECT_DELETE, OBJECT_PUT}

Init ==
    /\ event \in Deliveries
    /\ remaining = Budget
    /\ pc = "message"
    /\ mi = 1
    /\ ri = 1
    /\ content_exception = NoException
    /\ batch_processor = NoQueue
    /\ es = << >>
    /\ calls = << >>
    /\ raised = NoException
    /\ skipped = {}
    /\ failed = {}
    /\ arg = NoArg
    /\ result = NoResult

\* handler is entered with a delivery of LiveDeliveries
InitLive ==
    /\ event \in LiveDeliveries
    /\ remaining = Budget
    /\ pc = "message"
    /\ mi = 1
    /\ ri = 1
    /\ content_exception = NoException
    /\ batch_processor = NoQueue
    /\ es = << >>
    /\ calls = << >>
    /\ raised = NoException
    /\ skipped = {}
    /\ failed = {}
    /\ arg = NoArg
    /\ result = NoResult

\* handler is entered with a delivery of WideDeliveries
InitWide ==
    /\ event \in WideDeliveries
    /\ remaining = Budget
    /\ pc = "message"
    /\ mi = 1
    /\ ri = 1
    /\ content_exception = NoException
    /\ batch_processor = NoQueue
    /\ es = << >>
    /\ calls = << >>
    /\ raised = NoException
    /\ skipped = {}
    /\ failed = {}
    /\ arg = NoArg
    /\ result = NoResult

\* as SkipTestEvent, but handler returns at the test sentinel
SkipTestEvent_return ==
    /\ pc = "message" /\ mi <= Len(event)
    /\ ~Message.hasRecords /\ Message.Event = TEST_EVENT
    /\ pc' = "done"
    /\ UNCHANGED <<event, remaining, mi, ri, content_exception, batch_processor, es,
                   calls, raised, skipped, failed>>
    /\ UNCHANGED <<arg, result>>

\* lines 228-232: the test sentinel is consumed
SkipTestEvent ==
    /\ pc = "message" /\ mi <= Len(event)
    /\ ~Message.hasRecords /\ Message.Event = TEST_EVENT
    /\ mi' = mi + 1
    /\ UNCHANGED <<event, remaining, pc, ri, content_exception, batch_processor, es,
                   calls, raised, skipped, failed>>
    /\ UNCHANGED <<arg, result>>

\* as RaiseUnexpected, but the message is passed over
RaiseUnexpected_ignore ==
    /\ pc = "message" /\ mi <= Len(event)
    /\ ~Message.hasRecords /\ Message.Event # TEST_EVENT
    /\ mi' = mi + 1
    /\ UNCHANGED <<event, remaining, pc, ri, content_exception, batch_processor, es,
                   calls, raised, skipped, failed>>
    /\ UNCHANGED <<arg, result>>

\* lines 233-235: no "Records" key
RaiseUnexpected ==
    /\ pc = "message" /\ mi <= Len(event)
    /\ ~Message.hasRecords /\ Message.Event # TEST_EVENT
    /\ pc' = "raised"
    /\ raised' = EnvelopeError
    /\ UNCHANGED <<event, remaining, mi, ri, content_exception, batch_processor, es,
                   calls, skipped, failed>>
    /\ UNCHANGED <<arg, result>>

\* lines 236-238: a new queue for the batch
StartBatch ==
    /\ pc = "message" /\ mi <= Len(event)
    /\ Message.hasRecords
    /\ batch_processor' = DocumentQueue
    /\ ri' = 1
    /\ pc' = "record"
    /\ calls' = << >>
    /\ UNCHANGED <<event, remaining, mi, content_exception, es, raised, skipped,
                   failed>>
    /\ UNCHANGED <<arg, result>>

\* the loop over the messages is over: handler returns
Return ==
    /\ pc = "message" /\ mi > Len(event)
    /\ pc' = "done"
    /\ UNCHANGED <<event, remaining, mi, ri, content_exception, batch_processor, es,
                   calls, raised, skipped, failed>>
    /\ UNCHANGED <<arg, result>>

\* lines 244-245
SkipRecord ==
    /\ pc = "record" /\ ri <= Len(Records)
    /\ ~Processed(event_.eventName)
    /\ ri' = ri + 1
    /\ calls' = << >>
    /\ UNCHANGED <<event, remaining, pc, mi, content_exception, batch_processor, es,
                   raised, skipped, failed>>
    /\ UNCHANGED <<arg, result>>

\* lines 262-273
AppendDelete ==
    /\ pc = "record" /\ ri <= Len(Records)
    /\ Processed(event_.eventName) /\ IsDelete(event_.eventName)
    /\ batch_processor' = append(batch_processor, Document(event_.eventName, Id, event_, NoMeta, << >>))
    /\ ri' = ri + 1
    /\ calls' = << >>
    /\ UNCHANGED <<event, remaining, pc, mi, content_exception, es, raised, skipped, failed>>
    /\ UNCHANGED <<arg, result>>

\* lines 275-283: retry_s3("head", ...) begins
StartHead ==
    /\ pc = "record" /\ ri <= Len(Records)
    /\ Processed(event_.eventName) /\ ~IsDelete(event_.eventName)
    /\ calls' = << NewCall(Arguments("head", Id, 0, 0, event_.eTag, VersionOf(event_))) >>
    /\ pc' = "head"
    /\ UNCHANGED <<event, remaining, mi, ri, content_exception, batch_processor, es,
                   raised, skipped, failed>>
    /\ UNCHANGED <<arg, result>>

\* one attempt of the current retry_s3 call fails and the decorator sleeps
S3Wait ==
    /\ InCall
    /\ \E exception \in Failures(Current.arguments.op, Id) :
        /\ RetryDecision(exception, Current.attempt_number) = "sleep"
        /\ LET wait == wait_exponential(Current.attempt_number) IN
            /\ calls' = [calls EXCEPT
                    ![Len(calls)].attempt_number = @ + 1,
                    ![Len(calls)].waits = Append(@, [wait |-> wait, remaining |-> remaining]),
                    ![Len(calls)].last = exception]
            /\ remaining' = Max(0, remaining - wait)
    /\ UNCHANGED <<event, pc, mi, ri, content_exception, batch_processor, es, raised, skipped, failed>>
    /\ UNCHANGED <<arg, result>>

\* lines 287-288: the "null" version fallback applies
FallsBack(exception, version_id) ==
    exception.type = "ClientError" /\ exception.Code = "403" /\ version_id = "null"
\* as FallbackVersion, but the fallback keeps the version
FallbackVersion_same(version_id) == version_id

\* line 294: the version the fallback head is called with
FallbackVersion(version_id) == NoVersion
\* as Skips, but no failure is passed over
Skips_none(exception) == FALSE

\* lines 341-343: the record is given up and the loop continues
Skips(exception) ==
    exception.type = "ClientError" /\ should_retry_exception(exception) = "False"
\* as Remember, but the first exception is kept
Remember_first(previous, exception) ==
    IF previous # NoException THEN previous ELSE exception

\* line 318
Remember(previous, exception) == exception
\* line 310: the version get_contents is called with
ContentsVersion(rec) == VersionOf(rec)

\* as AppendDocument, but a document without text is not appended
AppendDocument_nonempty(meta, text) ==
    /\ batch_processor' =
         IF text = << >> THEN batch_processor
         ELSE append(batch_processor,
                     Document(event_.eventName, Id, event_, decode_helium(meta), text))
    /\ ri' = ri + 1
    /\ pc' = "record"

\* lines 321-340, then the next record
AppendDocument(meta, text) ==
    /\ batch_processor' =
         append(batch_processor,
                Document(event_.eventName, Id, event_, decode_helium(meta), text))
    /\ ri' = ri + 1
    /\ pc' = "record"

\* the head call (or its fallback) returns; get_contents begins, lines 300-313
HeadOk ==
    /\ pc \in {"head", "head_fallback"}
    /\ \E size \in Sizes, meta \in Metas(event_) :
        /\ IF FetchesContents(event_)
           THEN /\ calls' = Append(ReturnedMeta(meta),
                        NewCall(Arguments("get", Id, size, LimitOf(event_),
                                          event_.eTag, ContentsVersion(event_))))
                /\ pc' = "get"
                /\ UNCHANGED <<ri, batch_processor>>
           ELSE /\ calls' = ReturnedMeta(meta)
                /\ AppendDocument(meta, << >>)
    /\ UNCHANGED <<event, remaining, mi, content_exception, es, raised, skipped,
                   failed>>
    /\ UNCHANGED <<arg, result>>

\* lines 284-296: the head call raises 403 for the "null" version
HeadFallback ==
    /\ pc = "head"
    /\ \E exception \in Failures("head", Id) :
        /\ RetryDecision(exception, Current.attempt_number) # "sleep"
        /\ LET exc == Surfaced(exception, Current.attempt_number) IN
            /\ FallsBack(exc, VersionOf(event_))
            /\ calls' = Append(Raised(exc),
                    NewCall(Arguments("head", Id, 0, 0, event_.eTag,
                                      FallbackVersion(VersionOf(event_)))))
    /\ pc' = "head_fallback"
    /\ UNCHANGED <<event, remaining, mi, ri, content_exception, batch_processor, es,
                   raised, skipped, failed>>
    /\ UNCHANGED <<arg, result>>

\* lines 341-343: a head failure the record is skipped for
HeadSkip ==
    /\ pc \in {"head", "head_fallback"}
    /\ \E exception \in Failures("head", Id) :
        /\ RetryDecision(exception, Current.attempt_number) # "sleep"
        /\ LET exc == Surfaced(exception, Current.attempt_number) IN
            /\ ~(pc = "head" /\ FallsBack(exc, VersionOf(event_)))
            /\ Skips(exc)
            /\ calls' = Raised(exc)
    /\ skipped' = skipped \cup {Id}
    /\ ri' = ri + 1
    /\ pc' = "record"
    /\ UNCHANGED <<event, remaining, mi, content_exception, batch_processor, es,
                   raised, failed>>
    /\ UNCHANGED <<arg, result>>

\* lines 344-348, or an exception no except clause of handler catches
HeadFatal ==
    /\ pc \in {"head", "head_fallback"}
    /\ \E exception \in Failures("head", Id) :
        /\ RetryDecision(exception, Current.attempt_number) # "sleep"
        /\ LET exc == Surfaced(exception, Current.attempt_number) IN
            /\ ~(pc = "head" /\ FallsBack(exc, VersionOf(event_)))
            /\ ~Skips(exc)
            /\ calls' = Raised(exc)
            /\ raised' = exc
    /\ pc' = "raised"
    /\ UNCHANGED <<event, remaining, mi, ri, content_exception, batch_processor, es,
                   skipped, failed>>
    /\ UNCHANGED <<arg, result>>

\* the byte fetch of get_contents returns and the contents are extracted:
\* lines 304-319 and 329-340
GetOk ==
    /\ pc = "get"
    /\ \E payload \in Payloads(IndexedExt(event_)[2], Compression(ExtOf(event_))) :
        /\ LET contents == get_contents(event_, Current.arguments.Range, payload) IN
            IF contents.raises = NoFault
            THEN /\ AppendDocument(HeadMeta, contents.text)
                 /\ UNCHANGED <<content_exception, failed>>
            ELSE /\ content_exception' =
                        Remember(content_exception, ExtractionError(contents.raises, Id))
                 /\ failed' = failed \cup {Id}
                 /\ AppendDocument(HeadMeta, << >>)
        /\ calls' = ReturnedBody(payload)
    /\ UNCHANGED <<event, remaining, mi, es, raised, skipped>>
    /\ UNCHANGED <<arg, result>>

\* as GetFail, but the failure is swallowed: nothing is retained
GetFail_swallow ==
    /\ pc = "get"
    /\ \E exception \in Failures("get", Id) :
        /\ RetryDecision(exception, Current.attempt_number) # "sleep"
        /\ LET exc == Surfaced(exception, Current.attempt_number) IN
            /\ calls' = Raised(exc)
    /\ AppendDocument(HeadMeta, << >>)
    /\ UNCHANGED <<event, remaining, mi, es, raised, skipped, content_exception, failed>>
    /\ UNCHANGED <<arg, result>>

\* the byte fetch of get_contents raises, lines 316-319 and 329-340
GetFail ==
    /\ pc = "get"
    /\ \E exception \in Failures("get", Id) :
        /\ RetryDecision(exception, Current.attempt_number) # "sleep"
        /\ LET exc == Surfaced(exception, Current.attempt_number) IN
            /\ content_exception' = Remember(content_exception, exc)
            /\ calls' = Raised(exc)
    /\ failed' = failed \cup {Id}
    /\ AppendDocument(HeadMeta, << >>)
    /\ UNCHANGED <<event, remaining, mi, es, raised, skipped>>
    /\ UNCHANGED <<arg, result>>

\* DocumentQueue.send_all: the queue is submitted in one request
send_all(q) == [q EXCEPT !.sent = TRUE]

\* as SendAll, but the remembered exception is raised before the flush
SendAll_raise_first ==
    /\ pc = "record" /\ ri > Len(Records)
    /\ IF content_exception # NoException
       THEN /\ pc' = "raised"
            /\ raised' = content_exception
            /\ UNCHANGED <<mi, es, batch_processor>>
       ELSE /\ es' = Append(es, batch_processor.queue)
            /\ batch_processor' = send_all(batch_processor)
            /\ pc' = "message"
            /\ mi' = mi + 1
            /\ UNCHANGED raised
    /\ UNCHANGED <<event, remaining, ri, content_exception, calls, skipped, failed>>
    /\ UNCHANGED <<arg, result>>

\* lines 349-355: flush, then re-raise the remembered exception
SendAll ==
    /\ pc = "record" /\ ri > Len(Records)
    /\ es' = Append(es, batch_processor.queue)
    /\ batch_processor' = send_all(batch_processor)
    /\ IF content_exception # NoException
       THEN /\ pc' = "raised"
            /\ raised' = content_exception
            /\ UNCHANGED mi
       ELSE /\ pc' = "message"
            /\ mi' = mi + 1
            /\ UNCHANGED raised
    /\ UNCHANGED <<event, remaining, ri, content_exception, calls, skipped, failed>>
    /\ UNCHANGED <<arg, result>>

Next ==
    \/ SkipTestEvent
    \/ RaiseUnexpected
    \/ StartBatch
    \/ Return
    \/ SkipRecord
    \/ AppendDelete
    \/ StartHead
    \/ S3Wait
    \/ HeadOk
    \/ HeadFallback
    \/ HeadSkip
    \/ HeadFatal
    \/ GetFail
    \/ GetOk
    \/ SendAll

Spec == Init /\ [][Next]_vars

\* ------------------------------------------- the extractors on their own
\* the characters of the texts: one, two and three bytes long, and the newline
Chars == {"a", "<e-acute>", "<euro>", Newline}
Texts == UNION { [1..n -> Chars] : n \in 0..MaxChars }
\* the cells of the notebooks: markdown over two lines, code with an output,
\* code with an empty source, raw, a cell of another type, a cell without source
Cells ==
    { Cell("markdown", TRUE, <<"m", Newline, "d">>, << >>),
      Cell("code", TRUE, <<"c">>, <<"O">>),
      Cell("code", TRUE, << >>, <<"O">>),
      Cell("raw", TRUE, <<"R">>, << >>),
      Cell("heading", TRUE, <<"X">>, << >>),
      Cell("unknown", FALSE, << >>, <<"O">>) }
Notebooks == UNION { [1..n -> Cells] : n \in 0..MaxCells }
PureRecords ==
    { Record(OBJECT_PUT, "v1", "etag1", "foo", k[1], k[2]) :
        k \in { <<"", ".txt">>, <<".txt", ".gz">>, <<"", ".ipynb">>, <<"", ".parquet">> } }
PurePayloads(rec) ==
    IF IndexedExt(rec)[2] = ".ipynb"
    THEN { Payload(NoFault, << >>, << Cell("code", TRUE, t, << >>) >>, << >>) : t \in Texts }
    ELSE IF IndexedExt(rec)[2] = ".parquet"
    THEN { Payload(NoFault, t, << >>, <<"{", "}">>) : t \in Texts }
    ELSE { Payload(NoFault, t, << >>, << >>) : t \in Texts }
\* the names infer_extensions is called with: every run of digits after .c
\* and after -c, names without either, and a key that holds a line break
InferStems ==
    {"file", "file-c01", "file-c001", "file-c0001", "file-c00011", "file-c000121",
     "file-c0000", "file-C0001", "two<LF>lines-c0001"}
InferExts ==
    { <<"", "">>, <<"", ".txt">>, <<"", ".parquet">>, <<"", ".c00">>, <<"", ".c000">>,
      <<"", ".c00011">>, <<"", ".c000121">>, <<".txt", ".c000">>, <<".c000", ".txt">>,
      <<".c000", ".gz">> }
InferRecords ==
    { Record(OBJECT_PUT, "v1", "etag1", stem, ext[1], ext[2]) :
        stem \in InferStems, ext \in InferExts }
PureArgs ==
    { Call("extract_text", NoArg.rec, 0, Payload(NoFault, << >>, cells, << >>)) :
        cells \in Notebooks }
    \cup { Call("infer_extensions", rec, 0, Unread) : rec \in InferRecords }
    \cup UNION { { Call("get_contents", rec, size, payload) :
                    size \in Sizes, payload \in PurePayloads(rec) } : rec \in PureRecords }

InitPure ==
    /\ event = << >>
    /\ remaining = Budget
    /\ pc = "pure"
    /\ mi = 1
    /\ ri = 1
    /\ content_exception = NoException
    /\ batch_processor = NoQueue
    /\ es = << >>
    /\ calls = << >>
    /\ raised = NoException
    /\ skipped = {}
    /\ failed = {}
    /\ arg \in PureArgs
    /\ result = NoResult

\* extract_text(notebook_str) is called on a well-formed notebook
ExtractText ==
    /\ pc = "pure" /\ arg.fn = "extract_text" /\ result = NoResult
    /\ result' = Result(extract_text(arg.payload.cells), NoFault)
    /\ UNCHANGED <<event, remaining, pc, mi, ri, content_exception, batch_processor, es,
                   calls, raised, skipped, failed, arg>>

\* get_contents is called and its byte fetch returns arg.payload
GetContents ==
    /\ pc = "pure" /\ arg.fn = "get_contents" /\ result = NoResult
    /\ result' = get_contents(arg.rec,
                     Arguments("get", <<1, 1>>, arg.size, LimitOf(arg.rec), arg.rec.eTag,
                               VersionOf(arg.rec)).Range,
                     arg.payload)
    /\ UNCHANGED <<event, remaining, pc, mi, ri, content_exception, batch_processor, es,
                   calls, raised, skipped, failed, arg>>

\* infer_extensions(key, ext) is called with the key and the extension of a name
InferExtensions ==
    /\ pc = "pure" /\ arg.fn = "infer_extensions" /\ result = NoResult
    /\ result' = Result(infer_extensions(KeyOf(arg.rec), ExtOf(arg.rec)), NoFault)
    /\ UNCHANGED <<event, remaining, pc, mi, ri, content_exception, batch_processor, es,
                   calls, raised, skipped, failed, arg>>

NextPure ==
    \/ ExtractText
    \/ GetContents
    \/ InferExtensions

SpecPure == InitPure /\ [][NextPure]_vars
\* the same handler, run on the deliveries of WideDeliveries
SpecWide == InitWide /\ [][Next]_vars
\* handler runs on: the interpreter takes the next step of the code, and a
\* storage request or a sleep of the retry decorator comes to an end
SpecLive == InitLive /\ [][Next]_vars /\ WF_vars(Next)

TypeOK ==
    /\ pc \in {"message", "record", "head", "head_fallback", "get", "done", "raised",
              "pure"}
    /\ remaining \in 0..Budget
    /\ mi \in 1..(Len(event) + 1)

\* ------------------------------------------------------------- properties
RECURSIVE Flatten(_)
Flatten(batches) ==
    IF batches = << >> THEN << >> ELSE batches[1] \o Flatten(Tail(batches))
\* every document the backend has received
Flushed == Flatten(es)
Count(docs, id) == Cardinality({ i \in 1..Len(docs) : docs[i].key = id })
TextsOf(docs, id) == { docs[i].text : i \in { j \in 1..Len(docs) : docs[j].key = id } }

RecordIds ==
    { id \in (1..Len(event)) \X (1..(MaxRecs + 1)) : id[2] <= Len(event[id[1]].Records) }
RecordAt(id) == event[id[1]].Records[id[2]]
IsCreateOrDelete(id) == RecordAt(id).eventName \in {OBJECT_PUT, OBJECT_DELETE}
\* the record has been through the loop body
Handled(id) == id[1] < mi \/ (id[1] = mi /\ pc # "message" /\ id[2] < ri)

Finished == pc \in {"done", "raised"}
RaisedEnvelope == pc = "raised" /\ raised = EnvelopeError
RaisedDeferred == pc = "raised" /\ raised.op = "get"
RaisedFatal == pc = "raised" /\ raised.op = "head"
Permanent(exception) ==
    exception.type = "ClientError" /\ exception.Code \in {"402", "403", "404"}
BatchesUpTo(m) == Cardinality({ k \in 1..m : event[k].hasRecords })
LastFailed == CHOOSE id \in failed : \A other \in failed : other[2] <= id[2]

\* C1 (as claimed): whenever handler ends without the envelope error, every
\* create or delete record of the delivery has exactly one flushed document.
C1_Original ==
    (Finished /\ ~RaisedEnvelope) =>
        \A id \in RecordIds : IsCreateOrDelete(id) => Count(Flushed, id) = 1

\* C1 (amended): when handler returns or raises the deferred content error,
\* every create or delete record of the batches handled so far has exactly
\* one flushed document, except the create records given up after a
\* 402/403/404 metadata failure, which have none; other records have none.
C1_FlushedOncePerRecord ==
    (pc = "done" \/ RaisedDeferred) =>
        \A id \in RecordIds :
            id[1] <= mi =>
                Count(Flushed, id) =
                    IF IsCreateOrDelete(id) /\ id \notin skipped THEN 1 ELSE 0

C1_Witness ==
    /\ pc = "done"
    /\ skipped # {}
    /\ \E id \in RecordIds :
        RecordAt(id).eventName = OBJECT_PUT /\ TextsOf(Flushed, id) = {<< >>}

\* C2 (as claimed): handler raises only the envelope error or an error that
\* follows the flush of the current queue, and never raises while documents
\* appended to the current queue are unflushed.
C2_Original ==
    pc = "raised" =>
        /\ raised = EnvelopeError \/ batch_processor.sent
        /\ batch_processor.queue = << >> \/ batch_processor.sent

\* C2 (amended): handler ends in exactly one of four ways: normal return
\* with every batch flushed; the envelope error; the deferred content error,
\* raised after send_all of the current queue; or the failure of a metadata
\* fetch that is no 402/403/404 client error, raised at once with the
\* current queue unflushed.
C2_FourEndings ==
    /\ pc = "done" =>
        /\ raised = NoException /\ content_exception = NoException
        /\ Len(es) = BatchesUpTo(Len(event))
    /\ pc = "raised" =>
        \/ /\ raised = EnvelopeError
           /\ ~event[mi].hasRecords
           /\ Len(es) = BatchesUpTo(mi)
        \/ /\ raised.op = "get"
           /\ raised = content_exception
           /\ batch_processor.sent
           /\ Len(es) = BatchesUpTo(mi) /\ Last(es) = batch_processor.queue
        \/ /\ raised.op = "head"
           /\ ~Permanent(raised)
           /\ batch_processor.created /\ ~batch_processor.sent
           /\ Len(es) = BatchesUpTo(mi) - 1

C2_Witness ==
    RaisedFatal /\ raised.type = "ClientError" /\ batch_processor.queue # << >>

\* C3 (as claimed): once extraction has failed in a batch, handler ends only
\* by raising the last such failure, after every record of the batch has
\* been handled and the queue flushed, each failing record holding an
\* empty-text document in the flush.
C3_Original ==
    (Finished /\ failed # {}) =>
        /\ pc = "raised" /\ raised = content_exception
        /\ raised.id = LastFailed
        /\ ri > Len(Records)
        /\ batch_processor.sent
        /\ \A id \in failed : TextsOf(Last(es), id) = {<< >>}

\* C3 (amended): every record whose extraction failed is appended with empty
\* text and the one retained error is the failure of the last of them; when
\* handler ends it has handled every record of the batch, flushed, and
\* raised that error, unless the metadata fetch of a later record failed
\* with something other than a 402/403/404 client error, which handler
\* raises at once, unflushed.
C3_DeferredLastFailure ==
    /\ failed = {} => content_exception = NoException
    /\ failed # {} =>
        /\ content_exception.op = "get" /\ content_exception.id = LastFailed
        /\ \A id \in failed :
            /\ id[1] = mi /\ RecordAt(id).eventName = OBJECT_PUT
            /\ Count(batch_processor.queue, id) = 1
            /\ TextsOf(batch_processor.queue, id) = {<< >>}
    /\ (Finished /\ failed # {}) =>
        \/ /\ RaisedDeferred /\ raised = content_exception
           /\ ri > Len(Records)
           /\ batch_processor.sent /\ Last(es) = batch_processor.queue
        \/ /\ RaisedFatal /\ ~Permanent(raised)
           /\ raised.id[1] = mi /\ raised.id[2] > LastFailed[2]
           /\ ~batch_processor.sent

C3_Witness ==
    RaisedDeferred /\ Cardinality(failed) >= 2 /\ raised.type = "ClientError"

\* C4 (as claimed): when the deferred content error is raised, no message
\* of the delivery is left with records that were not handled.
C4_Original ==
    RaisedDeferred => \A m \in 1..Len(event) : m > mi => event[m].Records = << >>

\* C5 (as claimed): no retry_s3 call goes on to a further attempt after an
\* attempt that failed with not-found, forbidden or precondition-failed.
C5_Original ==
    (InCall /\ Current.attempt_number > 1) =>
        Current.last.Code \notin {"403", "404", "412"}

\* C5 (amended): a retry_s3 call goes on to a further attempt only after a
\* client error whose code is none of 402, 403, 404; an attempt failing with
\* one of these ends the call at once.  Precondition-failed (412) is not
\* among them.
C5_PermanentNotRetried ==
    (InCall /\ Current.attempt_number > 1) =>
        /\ Current.last.type = "ClientError"
        /\ Current.last.Code \notin {"402", "403", "404"}
        /\ Current.waits # << >>

C5_Witness ==
    \E i \in 1..Len(calls) :
        calls[i].status = "raised" /\ calls[i].last.Code \in {"403", "404"}

\* a step that ends the pending retry_s3 call by raising a client error that
\* the retry predicate accepts is taken at attempt MAX_RETRY, after
\* MAX_RETRY - 1 waits, and raises the failure of that attempt
C6_Step ==
    (InCall /\ calls'[Len(calls)].status = "raised"
            /\ calls'[Len(calls)].last.type = "ClientError"
            /\ ~Permanent(calls'[Len(calls)].last)) =>
        /\ Current.attempt_number = MAX_RETRY
        /\ Len(Current.waits) = MAX_RETRY - 1
        /\ calls'[Len(calls)].last \in Failures(Current.arguments.op, Id)

\* a pending call is at attempt 1..MAX_RETRY and has slept one wait per
\* failed attempt; the waits lie between WAIT_MIN and WAIT_MAX, never
\* shrink, and from the second on double until the cap
C6_State ==
    InCall =>
        /\ Current.attempt_number \in 1..MAX_RETRY
        /\ Len(Current.waits) = Current.attempt_number - 1
        /\ \A k \in 1..Len(Current.waits) :
            LET w == Current.waits[k].wait IN
            /\ WAIT_MIN <= w /\ w <= WAIT_MAX
            /\ k = 2 => w \in {Current.waits[1].wait, Min(2 * Current.waits[1].wait, WAIT_MAX)}
            /\ k > 2 => w = Min(2 * Current.waits[k - 1].wait, WAIT_MAX)

\* C6: while every failed attempt of a retry_s3 call is a non-permanent
\* client error, the call repeats the attempt after exponentially growing,
\* capped waits, makes at most MAX_RETRY attempts, and after the
\* MAX_RETRY-th failure raises that failure without a further attempt.
C6_BoundedBackoff == [](C6_State) /\ [][C6_Step]_vars

C6_Witness ==
    /\ InCall /\ Current.attempt_number = MAX_RETRY
    /\ Last(Current.waits).wait > Current.waits[1].wait

\* C7 (as claimed): a fault that carries no response is retried like any
\* other non-permanent failure and never becomes another error inside the
\* retry decision: no AttributeError comes out of retry_s3.
C7_Original ==
    /\ raised.type # "AttributeError"
    /\ content_exception.type # "AttributeError"
    /\ \A i \in 1..Len(calls) : calls[i].last.type # "AttributeError"

\* C8 (as claimed): no backoff wait of retry_s3 begins that is longer than
\* the execution time remaining when it begins.
C8_Original ==
    \A i \in 1..Len(calls) :
        \A k \in 1..Len(calls[i].waits) :
            calls[i].waits[k].wait <= calls[i].waits[k].remaining

HeadCalls == { i \in 1..Len(calls) : calls[i].arguments.op = "head" }

\* C9 (as claimed): the fallback metadata fetch carries neither VersionId
\* nor IfMatch.
C9_Original ==
    pc = "head_fallback" =>
        /\ Current.arguments.VersionId = Absent
        /\ Current.arguments.IfMatch = Absent

\* C9 (amended): a metadata fetch that fails with 403 for versionId "null"
\* is followed by exactly one fallback metadata fetch, which carries no
\* VersionId but does carry IfMatch with the record's eTag; when the
\* fallback fails too the record is given up: no further metadata fetch, no
\* content fetch, no document.
C9_OneFallback ==
    /\ Cardinality(HeadCalls) <= 2 /\ HeadCalls \subseteq {1, 2}
    /\ pc = "head_fallback" => Len(calls) = 2 /\ Current.status = "pending"
    /\ (calls # << >> /\ calls[1].status = "raised") =>
        (Len(calls) >= 2 <=>
            (calls[1].last.Code = "403" /\ calls[1].arguments.VersionId = "null"))
    /\ 2 \in HeadCalls =>
        /\ calls[1].status = "raised" /\ calls[1].last.Code = "403"
        /\ calls[1].arguments.VersionId = "null"
        /\ calls[2].arguments.VersionId = Absent
        /\ calls[2].arguments.IfMatch = RecordAt(calls[2].arguments.Key).eTag
        /\ calls[2].arguments.IfMatch # Absent
        /\ calls[2].arguments.Key = calls[1].arguments.Key
        /\ calls[2].status = "raised" =>
            /\ Len(calls) = 2
            /\ Count(batch_processor.queue, calls[2].arguments.Key) = 0

C9_Witness ==
    /\ 2 \in HeadCalls /\ calls[2].status = "raised"
    /\ Permanent(calls[2].last) /\ pc = "record"

\* C10: no metadata or content fetch is ever made for a delete record, and
\* every delete record that has been through the loop body has exactly one
\* document, a tombstone with empty text, in the queue or in a flush; a
\* delete record not yet reached has none.
C10_DeleteTombstone ==
    /\ \A i \in 1..Len(calls) :
        RecordAt(calls[i].arguments.Key).eventName # OBJECT_DELETE
    /\ \A id \in RecordIds :
        RecordAt(id).eventName = OBJECT_DELETE =>
            LET docs == Flushed \o (IF batch_processor.sent THEN << >>
                                    ELSE batch_processor.queue) IN
            /\ Count(docs, id) = IF Handled(id) THEN 1 ELSE 0
            /\ \A i \in 1..Len(docs) :
                docs[i].key = id => docs[i].text = << >> /\ docs[i].event = OBJECT_DELETE

C10_Witness ==
    \E id \in RecordIds :
        /\ RecordAt(id).eventName = OBJECT_DELETE
        /\ Count(Flushed, id) = 1
        /\ \E other \in RecordIds :
            RecordAt(other).eventName = OBJECT_PUT /\ other[1] = id[1] /\ other[2] < id[2]

\* the documents appended so far: the flushed ones and the unsent queue
Appended ==
    Flushed \o (IF batch_processor.sent THEN << >> ELSE batch_processor.queue)
IsBad(m) == ~m.hasRecords /\ m.Event # TEST_EVENT
BadMessages == { k \in 1..Len(event) : IsBad(event[k]) }

\* C11 (as claimed): when handler raises the envelope error, nothing has been
\* fetched, appended or flushed for any record of the delivery.
C11_Original ==
    RaisedEnvelope => (es = << >> /\ ~batch_processor.created)

\* C11 (amended): handler raises the envelope error when its loop reaches a
\* message without Records that is not the test sentinel, unless an earlier
\* message ended the run; nothing of that message or of a later one has been
\* processed then, while the batches of the earlier messages have been
\* processed and flushed in full.  handler never returns from a delivery
\* that holds such a message.
C11_RaisedOnReach ==
    /\ RaisedEnvelope =>
        /\ mi \in BadMessages /\ \A k \in BadMessages : mi <= k
        /\ Len(es) = BatchesUpTo(mi)
        /\ \A i \in 1..Len(Flushed) : Flushed[i].key[1] < mi
        /\ \A id \in RecordIds :
            id[1] < mi =>
                Count(Flushed, id) =
                    IF IsCreateOrDelete(id) /\ id \notin skipped THEN 1 ELSE 0
        /\ batch_processor.created => batch_processor.sent
    /\ pc = "done" => BadMessages = {}
    /\ (Finished /\ BadMessages # {}) =>
        /\ pc = "raised"
        /\ \A k \in BadMessages : mi <= k

C11_Witness ==
    RaisedEnvelope /\ mi = 2 /\ Flushed # << >>

\* a step taken at a test sentinel moves on to the next message and touches
\* neither a queue, nor the backend, nor the storage
C12_Step ==
    (pc = "message" /\ mi <= Len(event) /\ event[mi] = TestMessage) =>
        /\ mi' = mi + 1 /\ pc' = "message"
        /\ UNCHANGED <<batch_processor, es, calls, raised, content_exception,
                       skipped, failed>>

\* when handler returns, every batch of the delivery, before or after a test
\* sentinel, has been flushed, and no document belongs to a test sentinel
C12_State ==
    pc = "done" =>
        /\ Len(es) = Cardinality({ k \in 1..Len(event) : event[k] # TestMessage })
        /\ \A i \in 1..Len(Flushed) : event[Flushed[i].key[1]] # TestMessage
        /\ \A id \in RecordIds :
            (IsCreateOrDelete(id) /\ id \notin skipped) => Count(Flushed, id) = 1

\* C12: a message that is the test sentinel is consumed without error: no
\* queue is created, no document appended, no storage or backend call made
\* for it, and the later messages of the delivery are still processed.
C12_TestEventConsumed == [](C12_State) /\ [][C12_Step]_vars

C12_Witness ==
    /\ pc = "done" /\ Len(event) = 2 /\ event[1] = TestMessage
    /\ Flushed # << >>

\* C14: no metadata or content fetch and no append is made for a record whose
\* event kind is neither create nor delete, and the other records of the
\* batch are processed as usual: each create or delete record the loop has
\* passed, unless given up after a 402/403/404 metadata failure, has exactly
\* one appended document.
C14_OtherKindsSkipped ==
    /\ \A i \in 1..Len(calls) : IsCreateOrDelete(calls[i].arguments.Key)
    /\ \A id \in RecordIds :
        /\ ~IsCreateOrDelete(id) => Count(Appended, id) = 0
        /\ (IsCreateOrDelete(id) /\ Handled(id) /\ id \notin skipped) =>
            Count(Appended, id) = 1

C14_Witness ==
    \E id \in RecordIds :
        /\ RecordAt(id).eventName = DELETE_MARKER /\ id[2] = 1
        /\ \E next \in RecordIds :
            /\ next[1] = id[1] /\ next[2] = 2
            /\ RecordAt(next).eventName = OBJECT_PUT
            /\ TextsOf(Flushed, next) = {Hello}

\* C17: every request retry_s3 builds carries exactly one consistency token:
\* VersionId when retry_s3 was given a version id, otherwise IfMatch with
\* the etag; never both, never neither.
C17_OneToken ==
    \A i \in 1..Len(calls) :
        LET a == calls[i].arguments IN
        /\ (a.VersionId = Absent) # (a.IfMatch = Absent)
        /\ a.VersionId # Absent => a.VersionId = VersionOf(RecordAt(a.Key))
        /\ a.IfMatch # Absent => a.IfMatch = RecordAt(a.Key).eTag

C17_Witness ==
    /\ pc = "get" /\ Len(calls) = 3
    /\ calls[2].arguments.IfMatch = "etag1" /\ calls[2].arguments.VersionId = Absent
    /\ calls[3].arguments.VersionId = "null" /\ calls[3].arguments.IfMatch = Absent

\* the byte fetch of the record last handled returned, and what its body held
GotBody == calls # << >> /\ Current.arguments.op = "get" /\ Current.status = "returned"
Got == Current.body
GotId == Current.arguments.Key
GotExt == IndexedExt(RecordAt(GotId))[2]

\* C13 (as claimed): when handler returns and no fetch has failed, every
\* record with a created event name has one flushed document.
C13_Original ==
    (pc = "done" /\ skipped = {} /\ failed = {}) =>
        \A id \in RecordIds :
            RecordAt(id).eventName \in CreatedEvents => Count(Flushed, id) = 1

HeadOnly == pc # "head" /\ pc # "head_fallback" /\ calls # << >>
            /\ Current.arguments.op = "head" /\ Current.status = "returned"
IsPartitionFile(rec) ==
    \/ MatchesPartitionExt(Spell(Peeled(ExtOf(rec))[1]) \o Spell(Peeled(ExtOf(rec))[2]))
    \/ MatchesPartitionKey(KeyOf(rec))

\* C18 (as claimed): no byte fetch is made for a record whose extension,
\* with the outer .gz peeled, is no content-indexed extension.
C18_Original ==
    \A i \in 1..Len(calls) :
        calls[i].arguments.op = "get" =>
            InIndex(Peeled(ExtOf(RecordAt(calls[i].arguments.Key))))

\* C18 (amended): for an extension that, with the outer .gz peeled, is no
\* content-indexed extension, get_contents makes no storage call and returns
\* empty text, unless the name is that of a partition file (an extension of
\* .c and 3 to 5 digits, or a key ending in -c and 3 to 5 digits): such an
\* object is fetched whole and extracted as a columnar file.
C18_NoFetchUnlessPartition ==
    /\ \A i \in 1..Len(calls) :
        LET rec == RecordAt(calls[i].arguments.Key) IN
        calls[i].arguments.op = "get" =>
            /\ InIndex(Peeled(ExtOf(rec))) \/ IsPartitionFile(rec)
            /\ IsPartitionFile(rec) => calls[i].arguments.Range = << >>
    /\ HeadOnly =>
        LET rec == RecordAt(Current.arguments.Key) IN
        /\ ~InIndex(Peeled(ExtOf(rec))) /\ ~IsPartitionFile(rec)
        /\ Count(Appended, Current.arguments.Key) = 1
        /\ TextsOf(Appended, Current.arguments.Key) = {<< >>}
        /\ failed = {}

C18_Witness ==
    /\ pc = "done" /\ HeadOnly
    /\ ExtOf(RecordAt(Current.arguments.Key)) = <<".exe", ".gz">>
    /\ TextsOf(Flushed, Current.arguments.Key) = {<< >>}

Called(fn) == arg.fn = fn /\ result # NoResult
IsPrefix(p, s) == Len(p) <= Len(s) /\ SubSeq(s, 1, Len(p)) = p
\* the text a call of get_contents would return were there no ceiling
Untrimmed(a) ==
    IF IndexedExt(a.rec)[2] = ".ipynb" THEN extract_text(a.payload.cells)
    ELSE IF IndexedExt(a.rec)[2] = ".parquet"
    THEN a.payload.info \o <<Newline>> \o a.payload.chars
    ELSE a.payload.chars

Taken(cells) == { i \in 1..Len(cells) : cells[i].cell_type \in {"code", "markdown"} }
RECURSIVE Offset(_, _)
\* where the source of cell i + 1 begins in the text, were it taken
Offset(cells, i) ==
    IF i = 0 THEN 0
    ELSE Offset(cells, i - 1) + (IF i \in Taken(cells) THEN Len(cells[i].source) + 1 ELSE 0)

SpellExt(ext) == Spell(ext[1]) \o Spell(ext[2])
\* .c followed by 3 to 5 digits
IsPartitionExt(ext) ==
    LET s == SpellExt(ext) IN
    /\ Len(s) \in 5..7 /\ s[1] = "." /\ s[2] = "c"
    /\ \A i \in 3..Len(s) : s[i] \in Digits
\* the key ends in -c followed by 3 to 5 digits
EndsInPartitionSuffix(key) ==
    \E n \in 3..5 :
        /\ Len(key) >= n + 2
        /\ SubSeq(key, Len(key) - n - 1, Len(key) - n) = <<"-", "c">>
        /\ \A i \in (Len(key) - n + 1)..Len(key) : key[i] \in Digits
HasLineBreak(key) == \E i \in 1..Len(key) : key[i] = Newline

\* C21 (as claimed): infer_extensions returns .parquet when the extension is
\* .c followed by 3 to 5 digits or the key ends in -c followed by 3 to 5
\* digits, and the extension unchanged otherwise.
C21_Original ==
    Called("infer_extensions") =>
        result.text =
            IF IsPartitionExt(ExtOf(arg.rec)) \/ EndsInPartitionSuffix(KeyOf(arg.rec))
            THEN <<"", ".parquet">>
            ELSE ExtOf(arg.rec)

\* C21 (amended): infer_extensions returns .parquet when the extension is
\* .c followed by 3 to 5 digits, or when the key ends in -c followed by 3 to
\* 5 digits and holds no line break, and the extension unchanged otherwise;
\* a key ending in -c with 6 digits and a key like file-c0000.txt keep their
\* literal extension.
C21_InferExtensions ==
    Called("infer_extensions") =>
        result.text =
            IF \/ IsPartitionExt(ExtOf(arg.rec))
               \/ EndsInPartitionSuffix(KeyOf(arg.rec)) /\ ~HasLineBreak(KeyOf(arg.rec))
            THEN <<"", ".parquet">>
            ELSE ExtOf(arg.rec)

C21_Witness ==
    /\ Called("infer_extensions")
    /\ arg.rec.stem = "file-c000121" /\ ExtOf(arg.rec) = <<"", "">>
    /\ result.text = <<"", "">>

\* the index identity a document is sent under, and the one of a record
Identity(doc) == <<doc.event, doc.bucket, doc.name, doc.version_id>>
IdentityOf(rec) == <<rec.eventName, rec.bucket, KeyOf(rec), VersionOf(rec)>>
DocsOf(docs, id) == { docs[i] : i \in { j \in 1..Len(docs) : docs[j].key = id } }

\* C22: when the same notification has been processed twice and the storage
\* service answered alike (both times the record was given up, or neither
\* time), handler appended as many documents the second time as the first,
\* with the same event kind, bucket, key and versionId; the four are those
\* of the notification, whatever the storage service answered.
C22_SameTarget ==
    /\ \A id1, id2 \in RecordIds :
        (/\ RecordAt(id1) = RecordAt(id2) /\ Handled(id1) /\ Handled(id2)
         /\ (id1 \in skipped) = (id2 \in skipped)) =>
            /\ Count(Appended, id1) = Count(Appended, id2)
            /\ { Identity(d) : d \in DocsOf(Appended, id1) }
                 = { Identity(d) : d \in DocsOf(Appended, id2) }
    /\ \A i \in 1..Len(Appended) :
        Identity(Appended[i]) = IdentityOf(RecordAt(Appended[i].key))

C22_Witness ==
    /\ pc = "done" /\ Len(event) = 2 /\ event[1] = event[2]
    /\ RecordAt(<<1, 1>>).eventName = OBJECT_PUT /\ VersionOf(RecordAt(<<1, 1>>)) = "null"
    /\ Len(Flushed) = 2 /\ Identity(Flushed[1]) = Identity(Flushed[2])
    /\ Flushed[1].text = Hello /\ Flushed[2].text = Hello
    /\ Len(calls) = 3

\* the byte fetch of the record last handled ended in a storage error
GetRaised ==
    /\ calls # << >> /\ Current.arguments.op = "get" /\ Current.status = "raised"
    /\ Current.last.type = "ClientError"
\* the error retained is a storage error of a byte fetch
RetainedStorageError ==
    content_exception.type = "ClientError" /\ content_exception.op = "get"

\* C23 (as claimed): once the byte fetch of a Put record has failed with a
\* storage error, the record has one document with empty text, is not given
\* up, and handler ends by raising that error after the flush of the batch.
C23_Original ==
    RetainedStorageError =>
        LET id == content_exception.id IN
        /\ Count(Appended, id) = 1 /\ TextsOf(Appended, id) = {<< >>}
        /\ id \notin skipped
        /\ Finished =>
            /\ pc = "raised" /\ raised = content_exception
            /\ batch_processor.sent /\ Count(Flushed, id) = 1

\* C23 (amended): a byte fetch that fails with a storage error (permanent at
\* once, transient at the attempt ceiling) is not swallowed and the record
\* is not given up: the document is appended with empty text and the error
\* is retained, replacing an earlier one.  Handler raises the retained error
\* only after the flush of the batch, and it does raise it unless the
\* metadata fetch of a later record of the batch fails with something other
\* than a 402/403/404 client error, which is raised at once, unflushed.
C23_FetchFailureDeferred ==
    /\ GetRaised =>
        /\ Current.last.Code \in ErrorCodes
        /\ Permanent(Current.last) \/ Current.last.Code \in {"412", "500"}
        /\ content_exception = Current.last
        /\ Current.arguments.Key \in failed
    /\ RetainedStorageError =>
        LET id == content_exception.id IN
        /\ id \in failed /\ id \notin skipped
        /\ Count(Appended, id) = 1 /\ TextsOf(Appended, id) = {<< >>}
        /\ raised = content_exception =>
            /\ pc = "raised" /\ batch_processor.sent /\ Count(Flushed, id) = 1
        /\ Finished =>
            \/ raised = content_exception
            \/ /\ RaisedFatal /\ ~Permanent(raised)
               /\ raised.id[1] = id[1] /\ raised.id[2] > id[2]
               /\ ~batch_processor.sent /\ Count(Flushed, id) = 0

C23_Witness ==
    /\ RaisedDeferred /\ raised = ClientError("500", "get", <<1, 1>>)
    /\ GetRaised /\ TextsOf(Flushed, <<1, 1>>) = {<< >>}

\* the metadata fetch of the record last handled (its fallback, where one
\* was made) ended in a permanent failure
HeadGivenUp ==
    /\ calls # << >> /\ Current.arguments.op = "head" /\ Current.status = "raised"
    /\ Permanent(Current.last)
\* the batch of message m has been flushed
BatchFlushed(m) == Len(es) >= BatchesUpTo(m)

\* C24 (as claimed): a Put record whose metadata fetch ended in a permanent
\* failure has no document, the failure is not raised, handler goes on to
\* the next record and ends with the batch flushed.
C24_Original ==
    /\ HeadGivenUp => Current.arguments.Key \in skipped
    /\ \A id \in skipped :
        /\ Count(Appended, id) = 0
        /\ raised.id # id
        /\ Handled(id)
        /\ Finished => BatchFlushed(id[1])

\* C24 (amended): a Put record whose metadata fetch ended in a permanent
\* failure (402, 403 or 404, after the null-version fallback where it
\* applies) has no document, the failure is not raised and handler goes on
\* to the next record; it ends with the batch flushed unless the metadata
\* fetch of a later record of the batch fails with another kind of error,
\* which is raised at once, unflushed.
C24_PermanentHeadSkipped ==
    /\ HeadGivenUp => Current.arguments.Key \in skipped
    /\ \A id \in skipped :
        /\ RecordAt(id).eventName = OBJECT_PUT
        /\ Count(Appended, id) = 0
        /\ raised.id # id
        /\ Handled(id)
        /\ Finished =>
            \/ BatchFlushed(id[1])
            \/ /\ RaisedFatal /\ ~Permanent(raised)
               /\ raised.id[1] = id[1] /\ raised.id[2] > id[2]
               /\ ~batch_processor.sent

C24_Witness ==
    /\ pc = "done" /\ skipped = {<<1, 1>>}
    /\ VersionOf(RecordAt(<<1, 1>>)) = "null"
    /\ Len(es) = 1 /\ Len(es[1]) = 1 /\ es[1][1].key = <<1, 2>>
    /\ es[1][1].text = Hello

\* the documents are those of one message, in the order of its records
InRecordOrder(docs) ==
    \A i, j \in 1..Len(docs) :
        i < j => (docs[i].key[1] = docs[j].key[1] /\ docs[i].key[2] < docs[j].key[2])

\* every queue holds its documents in notification order, and a queue that
\* has been sent is the last batch the backend received
C25_State ==
    /\ InRecordOrder(batch_processor.queue)
    /\ \A b \in 1..Len(es) : InRecordOrder(es[b])
    /\ \A b, c \in 1..Len(es) :
        (b < c /\ es[b] # << >> /\ es[c] # << >>) => es[b][1].key[1] < es[c][1].key[1]
    /\ batch_processor.sent =>
        /\ pc \in {"message", "done", "raised"}
        /\ es # << >> /\ Last(es) = batch_processor.queue

\* an append adds the document of the current record at the end of the
\* unsent queue; send_all is called once the last record has been handled,
\* with the whole queue; a queue that has been sent is appended to no more
C25_Step ==
    /\ batch_processor'.queue # batch_processor.queue =>
        \/ batch_processor' = DocumentQueue /\ pc = "message"
        \/ /\ ~batch_processor.sent /\ ~batch_processor'.sent
           /\ Len(batch_processor'.queue) = Len(batch_processor.queue) + 1
           /\ SubSeq(batch_processor'.queue, 1, Len(batch_processor.queue))
                = batch_processor.queue
           /\ Last(batch_processor'.queue).key = <<mi, ri>>
    /\ es' # es =>
        /\ pc = "record" /\ ri > Len(event[mi].Records)
        /\ ~batch_processor.sent /\ batch_processor'.sent
        /\ es' = Append(es, batch_processor.queue)

\* C25: within one batch the appends follow the order of the records of the
\* notification (records given up left out), send_all is called only after
\* the last record has been handled, and nothing is appended to a queue
\* after its send_all.
C25_AppendOrder == [](C25_State) /\ [][C25_Step]_vars

C25_Witness ==
    /\ pc = "done" /\ Len(es) = 1 /\ Len(es[1]) = 2
    /\ es[1][1].key = <<1, 1>> /\ es[1][1].event = OBJECT_DELETE
    /\ es[1][2].key = <<1, 2>> /\ es[1][2].event = OBJECT_PUT

\* the head calls of the record last handled whose Metadata has a helium
\* entry that is not valid JSON
MalformedHelium ==
    { k \in 1..Len(calls) :
        /\ calls[k].arguments.op = "head" /\ calls[k].status = "returned"
        /\ calls[k].meta.has_helium
        /\ json_loads(calls[k].meta.helium) = JSONDecodeError }

\* C26 (as claimed): the document of a Put record whose helium entry is not
\* valid JSON carries the text extracted and an empty helium entry.
C26_Original ==
    \A k \in MalformedHelium :
        \A d \in DocsOf(Appended, calls[k].arguments.Key) :
            d.meta = Metadata(TRUE, Dict(""))

\* the number of bytes a Range of first and last byte position asks for
RangeBytes(range) == range[2] - range[1] + 1

\* C27 (as claimed): a byte fetch with a byte limit asks for a leading range
\* of at most that many bytes; with the limit of the text extractor that is
\* at most ELASTIC_LIMIT_BYTES bytes.
C27_Original ==
    \A k \in 1..Len(calls) :
        calls[k].arguments.Range # << >> =>
            /\ calls[k].arguments.op = "get"
            /\ calls[k].arguments.Range[1] = 0
            /\ RangeBytes(calls[k].arguments.Range) <= LimitOf(RecordAt(calls[k].arguments.Key))
            /\ RangeBytes(calls[k].arguments.Range) <= ELASTIC_LIMIT_BYTES

\* the consistency token of a request
Token(arguments) == <<arguments.VersionId, arguments.IfMatch>>
\* the calls of the current record: a head that raised, its fallback that
\* returned, the byte fetch
AfterFallback ==
    /\ Len(calls) = 3
    /\ calls[1].arguments.op = "head" /\ calls[1].status = "raised"
    /\ calls[2].arguments.op = "head" /\ calls[2].status = "returned"
    /\ calls[3].arguments.op = "get"

\* C28 (as claimed): after a metadata fetch that succeeded only through the
\* null-version fallback, the content fetch carries the token of the fetch
\* that succeeded, not the "null" version that was rejected.
C28_Original ==
    AfterFallback =>
        /\ Token(calls[3].arguments) = Token(calls[2].arguments)
        /\ calls[3].arguments.VersionId # "null"

\* the storage requests a retry_s3 call has made or is about to make
Requests(call) == call.attempt_number
\* at most a metadata fetch, one fallback metadata fetch and one content
\* fetch are made for a record, all for a Put record, and none of them goes
\* beyond MAX_RETRY attempts
C29_State ==
    /\ Len(calls) <= 3
    /\ \A k \in 1..Len(calls) :
        /\ Requests(calls[k]) <= MAX_RETRY
        /\ RecordAt(calls[k].arguments.Key).eventName = OBJECT_PUT
        /\ calls[k].arguments.Key = calls[1].arguments.Key
        /\ calls[k].arguments.op = (IF k = Len(calls) /\ k > 1 /\ pc # "head_fallback"
                                       /\ ~(pc = "raised" /\ raised.op = "head")
                                       /\ calls[k - 1].status = "returned"
                                    THEN "get" ELSE "head")
        /\ k < Len(calls) => calls[k].status # "pending"
    /\ Len(calls) = 3 => (calls[1].status = "raised" /\ calls[2].arguments.op = "head")

\* a step makes at most one storage request; a call ends at an attempt no
\* later than MAX_RETRY; calls are begun for Put records only
C29_Step ==
    /\ Len(calls') > Len(calls) =>
        /\ Len(calls') = Len(calls) + 1
        /\ pc \in {"record", "head", "head_fallback"}
        /\ event[mi].Records[ri].eventName = OBJECT_PUT
        /\ Last(calls').attempt_number = 1
    /\ (InCall /\ Len(calls') = Len(calls) /\ calls' # calls) =>
        \/ /\ calls'[Len(calls)].status = "pending"
           /\ calls'[Len(calls)].attempt_number = Current.attempt_number + 1
           /\ Current.attempt_number < MAX_RETRY
        \/ /\ calls'[Len(calls)].status # "pending"
           /\ Current.attempt_number <= MAX_RETRY
    /\ (pc = "record" /\ ri <= Len(event[mi].Records)
            /\ event[mi].Records[ri].eventName # OBJECT_PUT) => calls' = << >>

\* C29: handler eventually returns or raises, whatever the delivery and
\* whatever the storage service answers; for one Put record it makes at
\* most three retry_s3 calls (metadata fetch, one fallback, content fetch)
\* of at most MAX_RETRY storage requests each, and none for another record.
C29_Terminates == <>Finished /\ [](C29_State) /\ [][C29_Step]_vars

C29_Witness ==
    /\ pc = "get" /\ Len(calls) = 3 /\ Current.attempt_number = MAX_RETRY
    /\ Id = <<1, 2>>

\* the final suffix of a key, the outer .gz set aside
FinalSuffix(rec) == IF rec.ext1 = ".gz" THEN rec.ext2 ELSE rec.ext1

\* C30 (as claimed): a Put record whose key's final suffix is a
\* content-indexed extension has its content fetched, whatever dot-separated
\* segment precedes that suffix (report.v2.txt is extracted as .txt); only a
\* trailing .gz is an outer layer.
C30_Original ==
    HeadOnly =>
        FinalSuffix(RecordAt(Current.arguments.Key)) \notin CONTENT_INDEX_EXTS

====
